---------------------------- MODULE Spec2Model ----------------------------
(***************************************************************************)
(* A model of MessageStoreNoSql (src/src/message-store-nosql.ts): the      *)
(* DynamoDB-backed message store of dwn-nosql-store.  The state is the     *)
(* backing table messageStoreMessages; the actions are put, get, delete    *)
(* and query.  The values the calls return are recorded in the variables   *)
(* ret and chain so that the contracts of the calls can be stated.         *)
(*                                                                         *)
(* Strings whose only use is comparison (time stamps, content            *)
(* identifiers, index values) are modelled by integers: the order of the   *)
(* integers stands for the lexicographic order of the strings.             *)
(***************************************************************************)
EXTENDS Integers, Sequences, FiniteSets, TLC

VARIABLES
  table,    \* the backend table messageStoreMessages
  lastPut,  \* history: per primary key, the arguments of the latest put
            \* that no delete of the key has followed
  ret,      \* the latest put, get or delete call and what it returned
  chain,    \* the latest query call of a cursor chain and what it returned
  call,     \* the latest call of the store with its outcome: whether it
            \* returned or threw, and the backend commands it sent
  opened,   \* history: open() of the store has returned
  tableNames, \* the names of the tables the backend holds
  pending,  \* the put calls that are under way at the same time, each with
            \* the place it has reached
  issued,   \* history: the arguments of the put calls that were made at
            \* the same time as others
  dataStore \* the backend table dataStore of DataStoreNoSql, with the
            \* history of its puts and its latest call

vars ==
  <<table, lastPut, ret, chain, call, opened, tableNames, pending, issued,
    dataStore>>

\* what put, get, delete and query on an open store with a working backend
\* leave as it is
others == <<call, opened, tableNames, pending, issued, dataStore>>

(***************************************************************************)
(* Bounds of the model.                                                    *)
(***************************************************************************)
\* the table holds at most MaxItems items
MaxItems == 2
\* pagination.limit ranges over 0..MaxLimit (0 and absent are both falsy)
MaxLimit == 2
\* time stamps range over 1..MaxTime
MaxTime == 3
\* the backend returns at most ResponseCap items per Query response
\* (DynamoDB's 1 MB response limit, counted in items)
ResponseCap == 2

Tenants == {"T1", "T2"}

SortProps == {"dateCreated", "datePublished", "messageTimestamp"}

Ascending == 1
Descending == -1

(***************************************************************************)
(* Messages.  A GenericMessage is a record with a descriptor and, for some *)
(* messages, an inline payload field encodedData.                          *)
(***************************************************************************)
DataStrings == <<"", "d1">>
MethodNames == <<"Write", "Delete">>
InterfaceNames == <<"Records", "Protocols">>

Descriptors ==
  { [interface |-> "Records", method |-> m, n |-> 1] : m \in {"Write", "Delete"} }

\* a message without inline payload, with the empty one and with payload "d1"
Messages ==
  { [descriptor |-> d] : d \in Descriptors }
    \cup { [descriptor |-> d, encodedData |-> DataStrings[i]] :
              d \in Descriptors, i \in 1..Len(DataStrings) }

HasField(obj, key) == key \in DOMAIN obj

Range(s) == { s[i] : i \in 1..Len(s) }

\* the index of value v in the sequence s (v occurs in s)
IndexOf(s, v) == CHOOSE i \in 1..Len(s) : s[i] = v

\* getEncodedData with a seeded fault: the payload is read, and the
\* message is left as it is
getEncodedDataKept(message) ==
  IF /\ message.descriptor.interface = "Records"
     /\ message.descriptor.method = "Write"
     /\ "encodedData" \in DOMAIN message
     /\ message.encodedData # ""
    THEN [message |-> message, encodedData |-> <<message.encodedData>>]
    ELSE [message |-> message, encodedData |-> <<>>]

(***************************************************************************)
(* getEncodedData: the inline payload of a RecordsWrite is taken out of    *)
(* the message when it is truthy (present and not "").  The result is the  *)
(* message to process (which is the caller's object, as the call leaves    *)
(* it) and the payload, <<>> standing for null.                            *)
(***************************************************************************)
getEncodedData(message) ==
  IF /\ message.descriptor.interface = "Records"
     /\ message.descriptor.method = "Write"
     /\ HasField(message, "encodedData")
     /\ message.encodedData # ""
    THEN [message |-> [descriptor |-> message.descriptor],
          encodedData |-> <<message.encodedData>>]
    ELSE [message |-> message, encodedData |-> <<>>]

(***************************************************************************)
(* block.encode / block.decode with the dag-cbor codec: the canonical      *)
(* bytes of a message are modelled as a sequence of numbers, one per field *)
(* value, the optional field last.                                         *)
(***************************************************************************)
blockEncode(value) ==
  <<IndexOf(InterfaceNames, value.descriptor.interface),
    IndexOf(MethodNames, value.descriptor.method),
    value.descriptor.n>>
    \o (IF HasField(value, "encodedData")
          THEN <<IndexOf(DataStrings, value.encodedData)>> ELSE <<>>)

blockDecode(bytes) ==
  IF Len(bytes) > 3
    THEN [descriptor |-> [interface |-> InterfaceNames[bytes[1]],
                          method |-> MethodNames[bytes[2]], n |-> bytes[3]],
          encodedData |-> DataStrings[bytes[4]]]
    ELSE [descriptor |-> [interface |-> InterfaceNames[bytes[1]],
                          method |-> MethodNames[bytes[2]], n |-> bytes[3]]]

\* the sha256 content identifier of a block: an injective function of its
\* bytes (the digits of a number in base CidBase, the length first)
CidBase == 10

blockCid(bytes) ==
  LET digest[i \in 0..Len(bytes)] ==
        IF i = 0 THEN Len(bytes) ELSE digest[i - 1] * CidBase + bytes[i]
  IN digest[Len(bytes)]

\* the content identifier put computes for a message
CidOf(message) == blockCid(blockEncode(getEncodedData(message).message))

Cids == { CidOf(m) : m \in Messages }

(***************************************************************************)
(* Items.  A DynamoDB item maps attribute names to AttributeValues; an     *)
(* AttributeValue is a record with the single field S (a string) or B      *)
(* (bytes).                                                                *)
(***************************************************************************)
\* av.S in JavaScript: <<>> stands for undefined
AttrS(av) == IF HasField(av, "S") THEN <<av.S>> ELSE <<>>

\* item[name]?.S
ItemS(item, name) == IF HasField(item, name) THEN AttrS(item[name]) ELSE <<>>

\* the names of tag attributes among the index names the callers use
TagNames == {"tag.k"}

\* extractTagsAndSanitizeIndexes(indexes): the index map split into the
\* scalar attributes and the tag attributes, each value as a string
extractTagsAndSanitizeIndexes(indexes) ==
  [indexes |-> [a \in DOMAIN indexes \ TagNames |-> [S |-> indexes[a]]],
   tags |-> [a \in DOMAIN indexes \cap TagNames |-> [S |-> indexes[a]]]]

\* the Item literal of put: in an object literal a later key replaces an
\* earlier one of the same name
putItemLiteral(tenant, encodedMessageBytes, split) ==
  split.indexes @@ split.tags
    @@ [tenant |-> [S |-> tenant],
        messageCid |-> [S |-> blockCid(encodedMessageBytes)],
        encodedMessageBytes |-> [B |-> encodedMessageBytes]]

\* the Item of the PutItemCommand that put sends
putInput(tenant, message, indexes) ==
  IF getEncodedData(message).encodedData # <<>>
    THEN [encodedData |-> [S |-> getEncodedData(message).encodedData[1]]]
           @@ putItemLiteral(tenant, blockEncode(getEncodedData(message).message),
                             extractTagsAndSanitizeIndexes(indexes))
    ELSE putItemLiteral(tenant, blockEncode(getEncodedData(message).message),
                        extractTagsAndSanitizeIndexes(indexes))

(***************************************************************************)
(* The backend: the table messageStoreMessages of open(), with primary key *)
(* (tenant, messageCid) and one global secondary index per sort property,  *)
(* keyed (tenant, <property>) and projecting all attributes.  The table is *)
(* a sequence of items: the position of an item is the backend's physical  *)
(* order, which decides the order of index entries with the same sort key  *)
(* (DynamoDB leaves that order unspecified).                               *)
(***************************************************************************)
KeyOf(item) == <<item.tenant.S, item.messageCid.S>>

Keys(tbl) == { KeyOf(tbl[i]) : i \in 1..Len(tbl) }

Remove(tbl, key) == SelectSeq(tbl, LAMBDA it : KeyOf(it) # key)

\* the item of tbl with primary key (tenant, cid), <<>> when there is none
ItemAt(tbl, tenant, cid) == SelectSeq(tbl, LAMBDA it : KeyOf(it) = <<tenant, cid>>)

InsertAt(s, pos, e) == SubSeq(s, 1, pos - 1) \o <<e>> \o SubSeq(s, pos, Len(s))

\* a PutItem with a seeded fault: the attributes of the item that was there
\* and that the new item does not name are kept (an update, not a replacement)
PutItemMerging(tbl, item, pos) ==
  InsertAt(Remove(tbl, KeyOf(item)), pos,
           IF ItemAt(tbl, item.tenant.S, item.messageCid.S) # <<>>
             THEN item @@ ItemAt(tbl, item.tenant.S, item.messageCid.S)[1]
             ELSE item)

\* PutItem replaces the whole item that has the same primary key; pos is
\* the place the backend gives the new item
PutItem(tbl, item, pos) == InsertAt(Remove(tbl, KeyOf(item)), pos, item)

\* a DeleteItem with a seeded fault: the key names the content identifier
\* only, so that the items of every tenant with it are removed
DeleteItemByCid(tbl, tenant, cid) ==
  SelectSeq(tbl, LAMBDA it : it.messageCid.S # cid)

\* DeleteItem removes the item with the primary key, if there is one
DeleteItem(tbl, tenant, cid) == Remove(tbl, <<tenant, cid>>)

\* a GetItem with a seeded fault: the key names the content identifier only,
\* so that the item of any tenant with it is read
GetItemAnyTenant(tbl, tenant, cid, attributesToGet) ==
  [n \in 1..(IF \E i \in 1..Len(tbl) : tbl[i].messageCid.S = cid THEN 1 ELSE 0) |->
     [a \in DOMAIN tbl[CHOOSE i \in 1..Len(tbl) : tbl[i].messageCid.S = cid]
              \cap attributesToGet |->
        tbl[CHOOSE i \in 1..Len(tbl) : tbl[i].messageCid.S = cid][a]]]

\* GetItem with AttributesToGet: <<>> when there is no such item
GetItem(tbl, tenant, cid, attributesToGet) ==
  [n \in 1..Cardinality({ i \in 1..Len(tbl) : KeyOf(tbl[i]) = <<tenant, cid>> }) |->
     [a \in DOMAIN tbl[CHOOSE i \in 1..Len(tbl) : KeyOf(tbl[i]) = <<tenant, cid>>]
              \cap attributesToGet |->
        tbl[CHOOSE i \in 1..Len(tbl) : KeyOf(tbl[i]) = <<tenant, cid>>][a]]]

\* the positions in tbl of the entries of index indexName in partition
\* tenant: an item without the index's sort key attribute has no entry
IndexEntries(tbl, tenant, indexName) ==
  { i \in 1..Len(tbl) : /\ tbl[i].tenant.S = tenant
                        /\ HasField(tbl[i], indexName)
                        /\ HasField(tbl[i][indexName], "S") }

\* entry i comes before entry j in the forward order of the index
EntryBefore(tbl, indexName, i, j) ==
  \/ tbl[i][indexName].S < tbl[j][indexName].S
  \/ tbl[i][indexName].S = tbl[j][indexName].S /\ i < j

\* the entries E of the index in forward order
ForwardScan(tbl, indexName, E) ==
  [n \in 1..Cardinality(E) |->
     CHOOSE i \in E :
       Cardinality({ j \in E : EntryBefore(tbl, indexName, j, i) }) + 1 = n]

Reverse(s) == [n \in 1..Len(s) |-> s[Len(s) + 1 - n]]

\* the entries of the index, in scan order
IndexScan(tbl, tenant, indexName, forward) ==
  IF forward
    THEN ForwardScan(tbl, indexName, IndexEntries(tbl, tenant, indexName))
    ELSE Reverse(ForwardScan(tbl, indexName, IndexEntries(tbl, tenant, indexName)))

\* the key attributes DynamoDB returns as LastEvaluatedKey of an index query
IndexKey(item, indexName) ==
  [a \in {"tenant", "messageCid", indexName} |-> item[a]]

\* whether startKey is a well-formed ExclusiveStartKey for this query
ValidStartKey(startKey, tenant, indexName) ==
  /\ DOMAIN startKey = {"tenant", "messageCid", indexName}
  /\ startKey.tenant = [S |-> tenant]

Min(a, b) == IF a <= b THEN a ELSE b

\* the number of leading entries of scan that lie at or before the start
\* key: up to the entry of the item the key names or, when the table has
\* no such item, up to the last entry with that sort value
SkipCount(tbl, scan, params) ==
  IF params.ExclusiveStartKey = <<>> THEN 0
  ELSE IF \E n \in 1..Len(scan) :
            KeyOf(tbl[scan[n]]) = KeyOf(params.ExclusiveStartKey[1])
    THEN CHOOSE n \in 1..Len(scan) :
           KeyOf(tbl[scan[n]]) = KeyOf(params.ExclusiveStartKey[1])
    ELSE Cardinality({ n \in 1..Len(scan) :
           IF params.ScanIndexForward
             THEN tbl[scan[n]][params.IndexName].S
                    <= params.ExclusiveStartKey[1][params.IndexName].S
             ELSE tbl[scan[n]][params.IndexName].S
                    >= params.ExclusiveStartKey[1][params.IndexName].S })

\* the number of items one response holds at most
ResponseBound(params) ==
  IF params.Limit = <<>> THEN ResponseCap ELSE Min(params.Limit[1], ResponseCap)

QueryResponse(items, more, indexName) ==
  [error |-> FALSE, Items |-> items, ScannedCount |-> Len(items),
   LastEvaluatedKey |->
     IF more THEN <<IndexKey(items[Len(items)], indexName)>> ELSE <<>>]

\* the response that takes `take` of the `remaining` entries after `skip`
QueryTake(tbl, params, scan, skip, remaining, take, lekAtEnd) ==
  QueryResponse([n \in 1..take |-> tbl[scan[skip + n]]],
                take < remaining
                  \/ (take > 0 /\ take = ResponseBound(params) /\ lekAtEnd),
                params.IndexName)

QueryFrom(tbl, params, scan, skip, lekAtEnd) ==
  QueryTake(tbl, params, scan, skip, Len(scan) - skip,
            Min(Len(scan) - skip, ResponseBound(params)), lekAtEnd)

QueryScan(tbl, params, scan, lekAtEnd) ==
  QueryFrom(tbl, params, scan, SkipCount(tbl, scan, params), lekAtEnd)

(***************************************************************************)
(* Query on a secondary index.  params is the QueryCommandInput; Limit and *)
(* ExclusiveStartKey are sequences of at most one element.  lekAtEnd is    *)
(* the backend's choice, when it stops at a limit exactly at the end of    *)
(* the index, between returning a LastEvaluatedKey and returning none.     *)
(***************************************************************************)
Query(tbl, params, lekAtEnd) ==
  IF /\ params.ExclusiveStartKey # <<>>
     /\ ~ValidStartKey(params.ExclusiveStartKey[1], params.tenant, params.IndexName)
    THEN [error |-> TRUE, Items |-> <<>>, ScannedCount |-> 0,
          LastEvaluatedKey |-> <<>>]
    ELSE QueryScan(tbl, params,
                   IndexScan(tbl, params.tenant, params.IndexName,
                             params.ScanIndexForward),
                   lekAtEnd)

(***************************************************************************)
(* The query path of MessageStoreNoSql.                                    *)
(***************************************************************************)
\* a MessageSort names at most one sort property here; the empty function
\* stands for an absent messageSort
MessageSorts ==
  { [p \in D |-> dir] : D \in { {} } \cup { {q} : q \in SortProps },
                        dir \in {Ascending, Descending} }

\* extractSortProperties with a seeded fault: the direction of the request
\* is dropped
extractSortAscending(messageSort) ==
  IF HasField(messageSort, "dateCreated")
    THEN [property |-> "dateCreated", direction |-> Ascending]
  ELSE IF HasField(messageSort, "datePublished")
    THEN [property |-> "datePublished", direction |-> Ascending]
  ELSE [property |-> "messageTimestamp", direction |-> Ascending]

extractSortProperties(messageSort) ==
  IF HasField(messageSort, "dateCreated")
    THEN [property |-> "dateCreated", direction |-> messageSort["dateCreated"]]
  ELSE IF HasField(messageSort, "datePublished")
    THEN [property |-> "datePublished", direction |-> messageSort["datePublished"]]
  ELSE IF HasField(messageSort, "messageTimestamp")
    THEN [property |-> "messageTimestamp", direction |-> messageSort["messageTimestamp"]]
  ELSE [property |-> "messageTimestamp", direction |-> Ascending]

\* JSON.stringify and JSON.parse of a key (a map of string attributes): the
\* text is a sequence of <<name, type, value>> members
KeyAttrOrder == <<"tenant", "messageCid", "dateCreated", "datePublished", "messageTimestamp">>

JSONstringify(key) ==
  [i \in 1..Cardinality(DOMAIN key) |->
     <<SelectSeq(KeyAttrOrder, LAMBDA a : a \in DOMAIN key)[i], "S",
       key[SelectSeq(KeyAttrOrder, LAMBDA a : a \in DOMAIN key)[i]].S>>]

JSONparse(text) ==
  [a \in { text[i][1] : i \in 1..Len(text) } |->
     [S |-> text[CHOOSE i \in 1..Len(text) : text[i][1] = a][3]]]

\* cursorInputSort with a seeded fault: the limit of the page is not passed
\* to the backend
cursorInputNoLimit(tenant, pagination, sortAttribute, sortDirection) ==
  [tenant |-> tenant,
   ScanIndexForward |-> (sortDirection = Ascending),
   IndexName |-> sortAttribute,
   Limit |-> <<>>,
   ExclusiveStartKey |->
     IF pagination.cursor # <<>>
       THEN <<JSONparse(pagination.cursor[1].messageCid)>> ELSE <<>>]

\* pagination is [limit, cursor]: limit 0 stands for an absent or zero limit
\* (both falsy), cursor is a sequence of at most one PaginationCursor
cursorInputSort(tenant, pagination, sortAttribute, sortDirection) ==
  [tenant |-> tenant,
   ScanIndexForward |-> (sortDirection = Ascending),
   IndexName |-> sortAttribute,
   Limit |-> IF pagination.limit # 0 THEN <<pagination.limit>> ELSE <<>>,
   ExclusiveStartKey |->
     IF pagination.cursor # <<>>
       THEN <<JSONparse(pagination.cursor[1].messageCid)>> ELSE <<>>]

\* the test of lines 384-388: LastEvaluatedKey[key] !== Items[ScannedCount - 1].S
\* compares an AttributeValue object of the response with the attribute named
\* "S" of the last item (<<>> when the item has none).  Two distinct objects
\* are never identical, and undefined is identical to no object.
NotIdentical(lekValue, itemAttr) == TRUE

\* lines 382-393: the LastEvaluatedKey of the response, deleted when every
\* key of it passes the test
StripLastEvaluatedKey(data) ==
  IF /\ data.ScannedCount > 0
     /\ data.LastEvaluatedKey # <<>>
     /\ \A key \in DOMAIN data.LastEvaluatedKey[1] :
          ~NotIdentical(data.LastEvaluatedKey[1][key],
                        IF HasField(data.Items[data.ScannedCount], "S")
                          THEN <<data.Items[data.ScannedCount]["S"]>> ELSE <<>>)
    THEN <<>>
    ELSE data.LastEvaluatedKey

\* an inner loop with a seeded fault: one key of the clause that passes the
\* test is enough
anyKeyMatch(item, filter) ==
  \E key \in DOMAIN filter :
    ~ (~HasField(item, key) \/ AttrS(item[key]) # <<filter[key]>>)

\* the inner loop of filteredItems: the clause matches when no key of it
\* fails the test
innerFilterMatch(item, filter) ==
  \A key \in DOMAIN filter :
    ~ (~HasField(item, key) \/ AttrS(item[key]) # <<filter[key]>>)

filterMatchCount(item, filters) ==
  Cardinality({ i \in 1..Len(filters) : innerFilterMatch(item, filters[i]) })

filteredItems(items, filters) ==
  SelectSeq(items, LAMBDA item : filterMatchCount(item, filters) > 0)

\* a parseEncodedMessage with a seeded fault: the payload is not put back
parseWithoutPayload(encodedMessageBytes, encodedData) ==
  blockDecode(encodedMessageBytes)

\* parseEncodedMessage(encodedMessageBytes, encodedData): encodedData is a
\* sequence of at most one string
parseEncodedMessage(encodedMessageBytes, encodedData) ==
  IF encodedData # <<>>
    THEN [encodedData |-> encodedData[1]] @@ blockDecode(encodedMessageBytes)
    ELSE blockDecode(encodedMessageBytes)

processPaginationResults(results, sortProperty, lastEvaluatedKey, limit) ==
  [messages |-> [i \in 1..Len(results) |->
                   parseEncodedMessage(results[i].encodedMessageBytes.B,
                                       ItemS(results[i], "encodedData"))],
   cursor |-> IF lastEvaluatedKey # <<>>
                THEN <<[messageCid |-> JSONstringify(lastEvaluatedKey[1]),
                        value |-> JSONstringify(lastEvaluatedKey[1])]>>
                ELSE <<>>]

\* the result of query, with the window of items the backend returned and
\* the items kept of it
queryResult(data, kept, results) ==
  [error |-> FALSE, messages |-> results.messages, cursor |-> results.cursor,
   window |-> data.Items, kept |-> kept]

\* lines 382-435, on the response data of the first QueryCommand
queryData(data, filters, sortProperty, limit) ==
  queryResult(data, filteredItems(data.Items, filters),
              processPaginationResults(filteredItems(data.Items, filters),
                                       sortProperty, StripLastEvaluatedKey(data),
                                       limit))

\* lines 370-378: the QueryCommand is sent twice, the second time without
\* Limit; the second response is not used, but a failure of either throws
querySend(tbl, params, filters, sortProperty, limit, lekAtEnd) ==
  IF Query(tbl, params, lekAtEnd).error
       \/ Query(tbl, [params EXCEPT !.Limit = <<>>], lekAtEnd).error
    THEN [error |-> TRUE, messages |-> <<>>, cursor |-> <<>>,
          window |-> <<>>, kept |-> <<>>]
    ELSE queryData(Query(tbl, params, lekAtEnd), filters, sortProperty, limit)

\* query(tenant, filters, messageSort, pagination)
query(tbl, tenant, filters, messageSort, pagination, lekAtEnd) ==
  querySend(tbl,
            cursorInputSort(tenant, pagination,
                            extractSortProperties(messageSort).property,
                            extractSortProperties(messageSort).direction),
            filters, extractSortProperties(messageSort).property,
            pagination.limit, lekAtEnd)

(***************************************************************************)
(* The calls.  ret records a put, get or delete; chain records a query and *)
(* the pages of the cursor chain it belongs to.  A chain is a sequence of  *)
(* query calls with the same arguments, each fed the cursor the one before *)
(* returned, over a table that is not written in between.  The caller      *)
(* takes a result (Return) before the next call that is not the next page  *)
(* of the chain is made; the store itself keeps nothing between calls.     *)
(***************************************************************************)
NoRet ==
  [op |-> "none", tenant |-> "", cid |-> 0, arg |-> <<>>, after |-> <<>>,
   before |-> <<>>, result |-> <<>>]

EmptyClause == [a \in {} |-> 0]

NoChain ==
  [active |-> FALSE, tenant |-> "", filters |-> <<>>, messageSort |-> EmptyClause,
   limit |-> 0, cursorIn |-> <<>>, error |-> FALSE, window |-> <<>>,
   kept |-> <<>>, messages |-> <<>>, cursor |-> <<>>, acc |-> <<>>, pages |-> 0]

\* #tableName
TableName == "messageStoreMessages"

\* no call has been made.  op is the operation, pc where a clear is, outcome
\* how the call ended ("returned" or "threw"), error what it threw, sent the
\* number of backend commands it sent, result what it returned; aborted,
\* failed and wasOpen say whether the caller's signal was aborted at entry,
\* whether the backend failed the call's command and whether open() had
\* returned; tenant, cid and before are the key the call names and the
\* item stored under it when the call was made
NoCall ==
  [op |-> "none", pc |-> "done", outcome |-> "none", error |-> "none",
   sent |-> 0, startKey |-> <<>>, byRef |-> TRUE, scans |-> 0,
   result |-> <<>>, aborted |-> FALSE, failed |-> FALSE, wasOpen |-> TRUE,
   tenant |-> "", cid |-> 0, before |-> <<>>, arg |-> <<>>, after |-> <<>>,
   failAt |-> 0]

\* the put calls that can be under way at the same time
MaxPuts == 2

Procs == 1..MaxPuts

\* no put call: pc is the place of the call ("idle": not called, "encode":
\* waiting for block.encode, "send": waiting for the PutItemCommand), with
\* the arguments of the call
NoPut == [pc |-> "idle", tenant |-> "", message |-> <<>>, indexes |-> <<>>]

NoPuts == [p \in Procs |-> NoPut]

\* the empty table dataStore, of which nothing was asked yet
NoData ==
  [table |-> {}, last |-> EmptyClause,
   ret |-> [op |-> "none", tenant |-> "", recordId |-> <<>>, dataCid |-> <<>>,
            result |-> <<>>]]

\* no result is waiting to be taken
Idle == ret = NoRet /\ chain = NoChain

\* the store after construction and open() on a backend without tables
Init ==
  /\ table = <<>>
  /\ lastPut = EmptyClause
  /\ ret = NoRet
  /\ chain = NoChain
  /\ call = NoCall
  /\ opened = TRUE
  /\ tableNames = {TableName}
  /\ pending = NoPuts
  /\ issued = {}
  /\ dataStore = NoData

\* put(tenant, message, indexes); pos is the backend's placement of the item
Put(tenant, message, indexes, pos) ==
  /\ Idle
  /\ pos \in 1..(Len(Remove(table, <<tenant, CidOf(message)>>)) + 1)
  /\ table' = PutItem(table, putInput(tenant, message, indexes), pos)
  /\ lastPut' = [k \in DOMAIN lastPut \cup {<<tenant, CidOf(message)>>} |->
                   IF k = <<tenant, CidOf(message)>>
                     THEN [tenant |-> tenant, message |-> message,
                           indexes |-> indexes]
                     ELSE lastPut[k]]
  /\ ret' = [op |-> "put", tenant |-> tenant, cid |-> CidOf(message),
             arg |-> <<message>>, after |-> <<getEncodedData(message).message>>,
             before |-> ItemAt(table, tenant, CidOf(message)),
             result |-> <<>>]
  /\ chain' = NoChain
  /\ UNCHANGED others

\* what get(tenant, cid) returns: <<>> stands for undefined
getResponse(response) ==
  IF response = <<>> THEN <<>>
  ELSE <<parseEncodedMessage(response[1].encodedMessageBytes.B,
                             ItemS(response[1], "encodedData"))>>

get(tbl, tenant, cid) ==
  getResponse(GetItem(tbl, tenant, cid,
                {"tenant", "messageCid", "encodedMessageBytes", "encodedData"}))

Get(tenant, cid) ==
  /\ Idle
  /\ ret' = [op |-> "get", tenant |-> tenant, cid |-> cid, arg |-> <<>>,
             after |-> <<>>, before |-> ItemAt(table, tenant, cid),
             result |-> get(table, tenant, cid)]
  /\ chain' = NoChain
  /\ UNCHANGED <<table, lastPut>>
  /\ UNCHANGED others

Delete(tenant, cid) ==
  /\ Idle
  /\ table' = DeleteItem(table, tenant, cid)
  /\ lastPut' = [k \in DOMAIN lastPut \ {<<tenant, cid>>} |-> lastPut[k]]
  /\ ret' = [op |-> "delete", tenant |-> tenant, cid |-> cid, arg |-> <<>>,
             after |-> <<>>, before |-> ItemAt(table, tenant, cid),
             result |-> <<>>]
  /\ chain' = NoChain
  /\ UNCHANGED others

\* the record of a query call: c is the chain so far, r the call's result;
\* acc is the concatenation of the pages of the chain
Page(c, tenant, filters, messageSort, limit, r) ==
  [active |-> TRUE, tenant |-> tenant, filters |-> filters,
   messageSort |-> messageSort, limit |-> limit, cursorIn |-> c.cursor,
   error |-> r.error, window |-> r.window, kept |-> r.kept,
   messages |-> r.messages, cursor |-> r.cursor,
   acc |-> c.acc \o r.messages, pages |-> c.pages + 1]

\* the first query of a chain
StartQuery(tenant, filters, messageSort, limit, lekAtEnd) ==
  /\ Idle
  /\ chain' = Page(NoChain, tenant, filters, messageSort, limit,
                   query(table, tenant, filters, messageSort,
                         [limit |-> limit, cursor |-> <<>>], lekAtEnd))
  /\ ret' = NoRet
  /\ UNCHANGED <<table, lastPut>>
  /\ UNCHANGED others

\* the next query of the chain, with the cursor the last one returned
NextPage(lekAtEnd) ==
  /\ chain.active /\ ~chain.error /\ chain.cursor # <<>>
  /\ chain' = Page(chain, chain.tenant, chain.filters, chain.messageSort,
                   chain.limit,
                   query(table, chain.tenant, chain.filters, chain.messageSort,
                         [limit |-> chain.limit, cursor |-> chain.cursor],
                         lekAtEnd))
  /\ ret' = NoRet
  /\ UNCHANGED <<table, lastPut>>
  /\ UNCHANGED others

\* the caller takes the result of the latest call
Return ==
  /\ ~Idle
  /\ ret' = NoRet
  /\ chain' = NoChain
  /\ UNCHANGED <<table, lastPut>>
  /\ UNCHANGED others

(***************************************************************************)
(* The inputs.  An index map carries the three time stamps the secondary   *)
(* indexes sort by; datePublished is present on published records only.    *)
(***************************************************************************)
IndexMap(time, published) ==
  IF published = 1
    THEN [dateCreated |-> 1, messageTimestamp |-> time, published |-> 1,
          datePublished |-> time]
    ELSE [dateCreated |-> 1, messageTimestamp |-> time, published |-> 0]

StoreIndexMaps == { IndexMap(1, 1), ("tag.k" :> 1) @@ IndexMap(2, 0) }

StoreFilters == { <<EmptyClause>>, <<[published |-> 1]>> }

\* a RecordsWrite without inline payload, with the empty one and with
\* payload "d1", and a message that is no RecordsWrite, with payload
StoreMessages ==
  { m \in Messages : \/ m.descriptor.method = "Write"
                     \/ (HasField(m, "encodedData") /\ m.encodedData # "") }

StoreCids == { CidOf(m) : m \in StoreMessages }

StorePut ==
  \E tenant \in Tenants, message \in StoreMessages, indexes \in StoreIndexMaps,
     pos \in 1..MaxItems :
    /\ Cardinality(Keys(table) \cup {<<tenant, CidOf(message)>>}) <= MaxItems
    /\ Put(tenant, message, indexes, pos)

StoreGet == \E tenant \in Tenants, cid \in StoreCids : Get(tenant, cid)

StoreDelete == \E tenant \in Tenants, cid \in StoreCids : Delete(tenant, cid)

StoreSorts == { EmptyClause, [datePublished |-> Descending] }

StoreQuery ==
  \E tenant \in Tenants, filters \in StoreFilters, messageSort \in StoreSorts,
     limit \in 0..MaxLimit, lekAtEnd \in BOOLEAN :
    StartQuery(tenant, filters, messageSort, limit, lekAtEnd)

StoreNextPage == \E lekAtEnd \in BOOLEAN : NextPage(lekAtEnd)

Next ==
  StorePut \/ StoreGet \/ StoreDelete \/ StoreQuery \/ StoreNextPage \/ Return

Spec == Init /\ [][Next]_vars

(***************************************************************************)
(* Paging.  One tenant's table of up to MaxRecords records is paged        *)
(* through with every sort order, with and without filters.                *)
(***************************************************************************)
\* the paged table holds at most MaxRecords records
MaxRecords == 3

PageTenant == "T1"

\* three messages with three content identifiers
PageMessages ==
  { [descriptor |-> d] : d \in Descriptors }
    \cup { m \in Messages : /\ m.descriptor.method = "Delete"
                            /\ HasField(m, "encodedData")
                            /\ m.encodedData # "" }

\* published records of every time stamp and an unpublished one
PageIndexMaps ==
  { IndexMap(time, 1) : time \in 1..MaxTime } \cup { IndexMap(1, 0) }

PageFilters ==
  { <<>>, <<EmptyClause>>, <<[published |-> 1]>>,
    <<[published |-> 1], [messageTimestamp |-> 1]>> }

PagePut ==
  \E message \in PageMessages, indexes \in PageIndexMaps, pos \in 1..MaxRecords :
    /\ Cardinality(Keys(table) \cup {<<PageTenant, CidOf(message)>>}) <= MaxRecords
    /\ Put(PageTenant, message, indexes, pos)

PageQuery ==
  \E filters \in PageFilters, messageSort \in MessageSorts,
     limit \in 0..MaxLimit, lekAtEnd \in BOOLEAN :
    StartQuery(PageTenant, filters, messageSort, limit, lekAtEnd)

PageNextPage == \E lekAtEnd \in BOOLEAN : NextPage(lekAtEnd)

PageReturn == Return

NextPaging == PagePut \/ PageQuery \/ PageNextPage \/ PageReturn

SpecPage == Init /\ [][NextPaging]_vars

(***************************************************************************)
(* Cursors out of their query.  The cursor a query returned is given to a  *)
(* query of the same tenant with another sort order or other filters.      *)
(***************************************************************************)
\* the query that is given the cursor of the latest query of the chain; it
\* starts a chain of its own, whose first page has a cursorIn
CrossQuery(filters, messageSort, lekAtEnd) ==
  /\ chain.active /\ ~chain.error /\ chain.cursor # <<>>
  /\ \/ filters # chain.filters
     \/ extractSortProperties(messageSort) # extractSortProperties(chain.messageSort)
  /\ chain' = Page([NoChain EXCEPT !.cursor = chain.cursor], chain.tenant,
                   filters, messageSort, chain.limit,
                   query(table, chain.tenant, filters, messageSort,
                         [limit |-> chain.limit, cursor |-> chain.cursor],
                         lekAtEnd))
  /\ ret' = NoRet
  /\ UNCHANGED <<table, lastPut>>
  /\ UNCHANGED others

CursorIndexMaps == { IndexMap(1, 1), IndexMap(2, 1), IndexMap(1, 0) }

CursorFilters == { <<[published |-> 1]>>, <<[messageTimestamp |-> 1]>> }

CursorPut ==
  \E message \in PageMessages, indexes \in CursorIndexMaps, pos \in 1..MaxRecords :
    /\ Cardinality(Keys(table) \cup {<<PageTenant, CidOf(message)>>}) <= MaxRecords
    /\ Put(PageTenant, message, indexes, pos)

CursorQuery ==
  \E filters \in CursorFilters, messageSort \in MessageSorts,
     limit \in 0..MaxLimit, lekAtEnd \in BOOLEAN :
    StartQuery(PageTenant, filters, messageSort, limit, lekAtEnd)

CursorNextPage == \E lekAtEnd \in BOOLEAN : NextPage(lekAtEnd)

CursorCross ==
  \E filters \in CursorFilters, messageSort \in MessageSorts, lekAtEnd \in BOOLEAN :
    CrossQuery(filters, messageSort, lekAtEnd)

CursorReturn == Return

NextCursor ==
  CursorPut \/ CursorQuery \/ CursorNextPage \/ CursorCross \/ CursorReturn

SpecCursor == Init /\ [][NextCursor]_vars

(***************************************************************************)
(* Sorting.  Records whose three time stamps order them differently are    *)
(* queried with every sort request.                                        *)
(***************************************************************************)
SortIndexMap(created, timestamp, published) ==
  [dateCreated |-> created, messageTimestamp |-> timestamp, published |-> 1,
   datePublished |-> published]

\* for every two sort properties, two records that they order oppositely,
\* and an unpublished record
SortIndexMaps ==
  { SortIndexMap(1, 2, 1), SortIndexMap(2, 1, 2), SortIndexMap(1, 1, 2),
    SortIndexMap(2, 2, 1), IndexMap(1, 0) }

SortPut ==
  \E message \in PageMessages, indexes \in SortIndexMaps, pos \in 1..MaxRecords :
    /\ Cardinality(Keys(table) \cup {<<PageTenant, CidOf(message)>>}) <= MaxRecords
    /\ Put(PageTenant, message, indexes, pos)

SortQuery ==
  \E messageSort \in MessageSorts, limit \in 0..MaxLimit, lekAtEnd \in BOOLEAN :
    StartQuery(PageTenant, <<[dateCreated |-> 1], [dateCreated |-> 2]>>,
               messageSort, limit, lekAtEnd)

SortNextPage == \E lekAtEnd \in BOOLEAN : NextPage(lekAtEnd)

SortReturn == Return

NextSort == SortPut \/ SortQuery \/ SortNextPage \/ SortReturn

SpecSort == Init /\ [][NextSort]_vars

(***************************************************************************)
(* Tenants.  Two tenants put, read and delete records with the same        *)
(* content identifiers and with payloads and index maps of their own.      *)
(***************************************************************************)
\* a RecordsWrite without inline payload and with the payload "d1", which
\* have one content identifier, and a message that is no RecordsWrite
TenantMessages ==
  { m \in StoreMessages : HasField(m, "encodedData") => m.encodedData = "d1" }

TenantCids == { CidOf(m) : m \in TenantMessages }

TenantPut ==
  \E tenant \in Tenants, message \in TenantMessages, indexes \in StoreIndexMaps,
     pos \in 1..MaxItems :
    /\ Cardinality(Keys(table) \cup {<<tenant, CidOf(message)>>}) <= MaxItems
    /\ Put(tenant, message, indexes, pos)

TenantGet == \E tenant \in Tenants, cid \in TenantCids : Get(tenant, cid)

TenantDelete == \E tenant \in Tenants, cid \in TenantCids : Delete(tenant, cid)

TenantQuery ==
  \E tenant \in Tenants, filters \in StoreFilters, messageSort \in StoreSorts,
     limit \in 0..MaxLimit, lekAtEnd \in BOOLEAN :
    StartQuery(tenant, filters, messageSort, limit, lekAtEnd)

TenantNextPage == \E lekAtEnd \in BOOLEAN : NextPage(lekAtEnd)

TenantReturn == Return

NextTenant ==
  \/ TenantPut
  \/ TenantGet
  \/ TenantDelete
  \/ TenantQuery
  \/ TenantNextPage
  \/ TenantReturn

SpecTenant == Init /\ [][NextTenant]_vars

(***************************************************************************)
(* Filtering.  Records with the attributes a, b and c are queried with     *)
(* lists of clauses over these attributes.                                 *)
(***************************************************************************)
FilterIndexMaps ==
  { [messageTimestamp |-> 1, a |-> 1, b |-> x, c |-> y] : x \in {2, 9}, y \in {3, 9} }
    \cup { [messageTimestamp |-> 1, a |-> 1, c |-> y] : y \in {3, 9} }

FilterClauses == { EmptyClause, [a |-> 1, b |-> 2], [c |-> 3], [b |-> 9] }

FilterLists ==
  { <<f>> : f \in FilterClauses } \cup { <<f, g>> : f, g \in FilterClauses }

FilterPut ==
  \E message \in PageMessages, indexes \in FilterIndexMaps, pos \in 1..MaxItems :
    /\ Cardinality(Keys(table) \cup {<<PageTenant, CidOf(message)>>}) <= MaxItems
    /\ Put(PageTenant, message, indexes, pos)

FilterQuery ==
  \E filters \in FilterLists, limit \in 0..MaxLimit :
    StartQuery(PageTenant, filters, EmptyClause, limit, FALSE)

FilterNextPage == NextPage(FALSE)

FilterReturn == Return

NextFilter == FilterPut \/ FilterQuery \/ FilterNextPage \/ FilterReturn

SpecFilter == Init /\ [][NextFilter]_vars

(***************************************************************************)
(* clear().  The Scan of the base table reads the items in the order of    *)
(* their primary keys, at most ResponseCap of them per response; each      *)
(* iteration of the loop of clear is one step.                             *)
(***************************************************************************)
TenantOrder == <<"T1", "T2">>

\* primary key a comes before primary key b in the order of the table
KeyBefore(a, b) ==
  \/ IndexOf(TenantOrder, a[1]) < IndexOf(TenantOrder, b[1])
  \/ a[1] = b[1] /\ a[2] < b[2]

\* the positions of the items of tbl in the order of their keys
ScanOrder(tbl) ==
  [n \in 1..Len(tbl) |->
     CHOOSE i \in 1..Len(tbl) :
       Cardinality({ j \in 1..Len(tbl) :
                       KeyBefore(KeyOf(tbl[j]), KeyOf(tbl[i])) }) + 1 = n]

\* the number of items at or before the start key
ScanSkip(tbl, order, startKey) ==
  IF startKey = <<>> THEN 0
  ELSE Cardinality({ n \in 1..Len(order) :
                       ~KeyBefore(startKey[1], KeyOf(tbl[order[n]])) })

ScanTake(tbl, order, skip, take, lekAtEnd) ==
  [Items |-> [n \in 1..take |-> tbl[order[skip + n]]],
   LastEvaluatedKey |->
     IF \/ take < Len(order) - skip
        \/ (take > 0 /\ take = ResponseCap /\ lekAtEnd)
       THEN <<KeyOf(tbl[order[skip + take]])>> ELSE <<>>]

ScanFrom(tbl, order, skip, lekAtEnd) ==
  ScanTake(tbl, order, skip, Min(Len(order) - skip, ResponseCap), lekAtEnd)

\* a Scan with a seeded fault: the response never has a LastEvaluatedKey
ScanOneWindow(tbl, startKey, lekAtEnd) ==
  [Items |-> ScanFrom(tbl, ScanOrder(tbl),
                      ScanSkip(tbl, ScanOrder(tbl), startKey), lekAtEnd).Items,
   LastEvaluatedKey |-> <<>>]

\* ScanCommand: startKey is ExclusiveStartKey, a sequence of at most one key
Scan(tbl, startKey, lekAtEnd) ==
  ScanFrom(tbl, ScanOrder(tbl), ScanSkip(tbl, ScanOrder(tbl), startKey), lekAtEnd)

\* the deletes of clear with a seeded fault: an item is emptied, its key is
\* left in the table
RECURSIVE emptyEach(_, _)
emptyEach(tbl, items) ==
  IF items = <<>> THEN tbl
  ELSE emptyEach([i \in 1..Len(tbl) |->
                    IF KeyOf(tbl[i]) = KeyOf(Head(items))
                      THEN [a \in {"tenant", "messageCid"} |-> tbl[i][a]]
                      ELSE tbl[i]],
                 Tail(items))

\* lines 566-578: a DeleteItemCommand for each item of the response
RECURSIVE deleteEach(_, _)
deleteEach(tbl, items) ==
  IF items = <<>> THEN tbl
  ELSE deleteEach(DeleteItem(tbl, Head(items).tenant.S, Head(items).messageCid.S),
                  Tail(items))

\* the history of puts, without the keys that are no longer in the table
Forget(history, tbl) == [k \in DOMAIN history \cap Keys(tbl) |-> history[k]]

\* clear() is called.  scanCommand is built once, from scanParams (line
\* 559): byRef says whether the command reads the ExclusiveStartKey that
\* line 581 later stores in scanParams (it keeps the object) or not (it
\* keeps a copy of it)
ClearStart(byRef) ==
  /\ Idle
  /\ call = NoCall
  /\ call' = [NoCall EXCEPT !.op = "clear", !.pc = "scan", !.byRef = byRef,
                            !.before = table]
  /\ UNCHANGED <<table, lastPut, ret, chain, opened, tableNames, pending, issued, dataStore>>

\* the backend fails command number failAt of the call (0: none).  The
\* iteration of the call c sends the ScanCommand as command c.sent + 1 and
\* the DeleteItemCommands of the response r after it
ScanFails(c) == c.failAt = c.sent + 1

DeleteFails(c, r) ==
  c.failAt > c.sent + 1 /\ c.failAt <= c.sent + 1 + Len(r.Items)

\* the items of the response that are deleted in the iteration
DeletedOf(c, r) ==
  IF ScanFails(c) THEN <<>>
  ELSE IF DeleteFails(c, r) THEN SubSeq(r.Items, 1, c.failAt - c.sent - 2)
  ELSE r.Items

\* the state of the call after the iteration that got the response r: a
\* command that fails ends the loop, and the catch of lines 586-588 makes
\* clear return
ClearNext(c, r) ==
  IF ScanFails(c) \/ DeleteFails(c, r)
    THEN [c EXCEPT !.pc = "done", !.outcome = "returned", !.failed = TRUE,
                   !.scans = c.scans + 1, !.sent = c.failAt]
    ELSE [c EXCEPT !.pc = IF r.LastEvaluatedKey # <<>> THEN "scan" ELSE "done",
                   !.outcome = IF r.LastEvaluatedKey # <<>> THEN "none"
                               ELSE "returned",
                   !.startKey = r.LastEvaluatedKey,
                   !.scans = c.scans + 1,
                   !.sent = c.sent + 1 + Len(r.Items)]

\* one iteration of the loop of lines 562-583
ClearLoop(lekAtEnd) ==
  /\ call.op = "clear"
  /\ call.pc = "scan"
  /\ table' = deleteEach(table,
                DeletedOf(call,
                  Scan(table, IF call.byRef THEN call.startKey ELSE <<>>,
                       lekAtEnd)))
  /\ lastPut' = Forget(lastPut, table')
  /\ call' = ClearNext(call, Scan(table, IF call.byRef THEN call.startKey ELSE <<>>,
                                  lekAtEnd))
  /\ UNCHANGED <<ret, chain, opened, tableNames, pending, issued, dataStore>>

\* the caller takes the outcome of the latest call
CallReturn ==
  /\ call # NoCall
  /\ call.pc = "done"
  /\ call' = NoCall
  /\ UNCHANGED <<table, lastPut, ret, chain, opened, tableNames, pending, issued, dataStore>>

\* records of both tenants are put, and the table is cleared while no one
\* writes
ClearPut ==
  \E tenant \in Tenants, message \in PageMessages, pos \in 1..MaxRecords :
    /\ call = NoCall
    /\ Cardinality(Keys(table) \cup {<<tenant, CidOf(message)>>}) <= MaxRecords
    /\ Put(tenant, message, IndexMap(1, 1), pos)

ClearPutReturn == call = NoCall /\ Return

ClearCall == \E byRef \in BOOLEAN : ClearStart(byRef)

ClearStep == \E lekAtEnd \in BOOLEAN : ClearLoop(lekAtEnd)

NextClear == ClearPut \/ ClearPutReturn \/ ClearCall \/ ClearStep \/ CallReturn

\* the loop of clear goes on as long as the backend answers
SpecClear == Init /\ [][NextClear]_vars /\ WF_vars(ClearStep)

(***************************************************************************)
(* The calls with their failures.  Each operator is a whole method of the  *)
(* store: aborted says that options.signal is aborted when the method is   *)
(* called, fails that the backend fails the command the method sends.  The *)
(* value is how the call ends, what it returns, the number of commands it  *)
(* sent and the table it leaves.                                           *)
(***************************************************************************)
\* the constructor (line 61) sets #client, and nothing unsets it: the test
\* !this.#client of every method is false, whether open() was called or not
HasClient == TRUE

Threw(error, sent, tbl) ==
  [outcome |-> "threw", error |-> error, sent |-> sent, result |-> <<>>,
   table |-> tbl]

Returned(result, sent, tbl) ==
  [outcome |-> "returned", error |-> "none", sent |-> sent, result |-> result,
   table |-> tbl]

\* the backend fails a command on the table: it is out of order, or it has
\* no table of the name
BackendFails(names, fails) == fails \/ TableName \notin names

\* block.decode throws on bytes that are no encoding of a message
Decodable(bytes) ==
  /\ Len(bytes) \in {3, 4}
  /\ bytes[1] \in 1..Len(InterfaceNames)
  /\ bytes[2] \in 1..Len(MethodNames)
  /\ Len(bytes) = 4 => bytes[4] \in 1..Len(DataStrings)

\* the caller's message object as put leaves it: getEncodedData (line 216)
\* runs after the throwIfAborted of line 195
putMessage(aborted, message) ==
  IF ~HasClient \/ aborted THEN message ELSE getEncodedData(message).message

\* put (lines 181-261): aborted says that the signal is aborted when put is
\* called, cancelled that it is aborted while the message is encoded
\* (executeUnlessAborted, lines 218-221).  The failure of the PutItemCommand
\* is caught at lines 256-259 and put returns
putCall(tbl, names, aborted, cancelled, fails, tenant, message, indexes, pos) ==
  IF ~HasClient THEN Threw("NotOpen", 0, tbl)
  ELSE IF aborted THEN Threw("Aborted", 0, tbl)
  ELSE IF cancelled THEN Threw("Aborted", 0, tbl)
  ELSE IF BackendFails(names, fails) THEN Returned(<<>>, 1, tbl)
  ELSE Returned(<<>>, 1, PutItem(tbl, putInput(tenant, message, indexes), pos))

\* get (lines 263-315): throwIfAborted, the GetItemCommand and
\* parseEncodedMessage are inside the try whose catch (lines 311-314) does
\* nothing, so that get returns undefined
getCall(tbl, names, aborted, fails, tenant, cid) ==
  IF ~HasClient THEN Threw("NotOpen", 0, tbl)
  ELSE IF aborted THEN Returned(<<>>, 0, tbl)
  ELSE IF BackendFails(names, fails) THEN Returned(<<>>, 1, tbl)
  ELSE IF ItemAt(tbl, tenant, cid) = <<>> THEN Returned(<<>>, 1, tbl)
  ELSE IF ~Decodable(ItemAt(tbl, tenant, cid)[1].encodedMessageBytes.B)
    THEN Returned(<<>>, 1, tbl)
  ELSE Returned(get(tbl, tenant, cid), 1, tbl)

\* delete (lines 523-545): nothing is caught
deleteCall(tbl, names, aborted, fails, tenant, cid) ==
  IF ~HasClient THEN Threw("NotOpen", 0, tbl)
  ELSE IF aborted THEN Threw("Aborted", 0, tbl)
  ELSE IF BackendFails(names, fails) THEN Threw("Backend", 1, tbl)
  ELSE Returned(<<>>, 1, DeleteItem(tbl, tenant, cid))

\* the response to the first QueryCommand of query
queryWindow(tbl, tenant, messageSort, pagination, lekAtEnd) ==
  Query(tbl,
        cursorInputSort(tenant, pagination,
                        extractSortProperties(messageSort).property,
                        extractSortProperties(messageSort).direction),
        lekAtEnd)

\* query (lines 317-442): throwIfAborted is before the try, and the catch
\* throws again.  The page is the pair of the messages and the cursor
queryCall(tbl, names, aborted, fails, tenant, filters, messageSort, pagination, lekAtEnd) ==
  IF ~HasClient THEN Threw("NotOpen", 0, tbl)
  ELSE IF aborted THEN Threw("Aborted", 0, tbl)
  ELSE IF BackendFails(names, fails) THEN Threw("Backend", 1, tbl)
  ELSE IF queryWindow(tbl, tenant, messageSort, pagination, lekAtEnd).error
    THEN Threw("Backend", 1, tbl)
  ELSE IF \E item \in Range(filteredItems(
                 queryWindow(tbl, tenant, messageSort, pagination, lekAtEnd).Items,
                 filters)) :
            ~Decodable(item.encodedMessageBytes.B)
    THEN Threw("Decode", 2, tbl)
  ELSE Returned(<<query(tbl, tenant, filters, messageSort, pagination,
                        lekAtEnd).messages,
                  query(tbl, tenant, filters, messageSort, pagination,
                        lekAtEnd).cursor>>, 2, tbl)

\* the record of a call on the key (tenant, cid) that ended as r
Outcome(op, aborted, fails, tenant, cid, r) ==
  [NoCall EXCEPT !.op = op, !.outcome = r.outcome, !.error = r.error,
                 !.sent = r.sent, !.result = r.result, !.aborted = aborted,
                 !.failed = BackendFails(tableNames, fails), !.wasOpen = opened,
                 !.tenant = tenant, !.cid = cid,
                 !.before = ItemAt(table, tenant, cid)]

\* no call is under way and no result is waiting
Quiet == Idle /\ call = NoCall

FaultPut(tenant, message, indexes, pos, aborted, cancelled, fails) ==
  /\ Quiet
  /\ pos \in 1..(Len(Remove(table, <<tenant, CidOf(message)>>)) + 1)
  /\ table' = putCall(table, tableNames, aborted, cancelled, fails, tenant,
                      message, indexes, pos).table
  /\ lastPut' = IF table' = table THEN lastPut
                ELSE [k \in DOMAIN lastPut \cup {<<tenant, CidOf(message)>>} |->
                        IF k = <<tenant, CidOf(message)>>
                          THEN [tenant |-> tenant, message |-> message,
                                indexes |-> indexes]
                          ELSE lastPut[k]]
  /\ call' = [Outcome("put", aborted, fails, tenant, CidOf(message),
                      putCall(table, tableNames, aborted, cancelled, fails,
                              tenant, message, indexes, pos))
                EXCEPT !.arg = <<message>>,
                       !.after = <<putMessage(aborted, message)>>]
  /\ UNCHANGED <<ret, chain, opened, tableNames, pending, issued, dataStore>>

FaultGet(tenant, cid, aborted, fails) ==
  /\ Quiet
  /\ call' = Outcome("get", aborted, fails, tenant, cid,
                     getCall(table, tableNames, aborted, fails, tenant, cid))
  /\ UNCHANGED <<table, lastPut, ret, chain, opened, tableNames, pending, issued, dataStore>>

FaultDelete(tenant, cid, aborted, fails) ==
  /\ Quiet
  /\ table' = deleteCall(table, tableNames, aborted, fails, tenant, cid).table
  /\ lastPut' = Forget(lastPut, table')
  /\ call' = Outcome("delete", aborted, fails, tenant, cid,
                     deleteCall(table, tableNames, aborted, fails, tenant, cid))
  /\ UNCHANGED <<ret, chain, opened, tableNames, pending, issued, dataStore>>

FaultQuery(tenant, filters, messageSort, limit, aborted, fails, lekAtEnd) ==
  /\ Quiet
  /\ call' = Outcome("query", aborted, fails, tenant, 0,
                     queryCall(table, tableNames, aborted, fails, tenant, filters,
                               messageSort, [limit |-> limit, cursor |-> <<>>],
                               lekAtEnd))
  /\ UNCHANGED <<table, lastPut, ret, chain, opened, tableNames, pending, issued, dataStore>>

\* clear() is called with a signal: clear has no parameter (line 547), so
\* that the signal is not looked at.  On a backend without the table the
\* first ScanCommand fails
FaultClear(aborted, failAt, byRef) ==
  /\ Quiet
  /\ call' = [NoCall EXCEPT !.op = "clear", !.pc = "scan", !.byRef = byRef,
                            !.aborted = aborted, !.wasOpen = opened,
                            !.before = table,
                            !.failAt = IF TableName \in tableNames THEN failAt
                                       ELSE 1]
  /\ UNCHANGED <<table, lastPut, ret, chain, opened, tableNames, pending, issued, dataStore>>

\* the stored bytes of an item are damaged
Corrupt(i) ==
  /\ Quiet
  /\ i \in 1..Len(table)
  /\ Decodable(table[i].encodedMessageBytes.B)
  /\ table' = [table EXCEPT ![i].encodedMessageBytes = [B |-> <<>>]]
  /\ UNCHANGED <<lastPut, ret, chain, call, opened, tableNames, pending, issued, dataStore>>

(***************************************************************************)
(* open() (lines 74-175).  ListTablesCommand with Limit 1 answers with at  *)
(* most one name of the tables the backend holds, which one is up to the   *)
(* backend: listed is that answer, a sequence of at most one name.         *)
(***************************************************************************)
\* the table of DataStoreNoSql (line 793), in the same backend
OtherTable == "dataStore"

\* line 88
tableExists(listed) == Len(listed) > 0 /\ TableName \in Range(listed)

\* the call of open: names is the set of tables the backend holds, fails
\* says that the backend fails the ListTablesCommand, createFails that it
\* fails the CreateTableCommand; the backend also refuses to create a table
\* it holds.  The failure of CreateTableCommand is caught (lines 167-172).
\* The value has the names of the tables after the call
openCall(names, listed, fails, createFails) ==
  IF fails
    THEN [outcome |-> "threw", error |-> "Backend", sent |-> 1, names |-> names,
          created |-> FALSE]
  ELSE IF tableExists(listed)
    THEN [outcome |-> "returned", error |-> "none", sent |-> 1, names |-> names,
          created |-> FALSE]
  ELSE IF createFails \/ TableName \in names
    THEN [outcome |-> "returned", error |-> "none", sent |-> 2, names |-> names,
          created |-> FALSE]
  ELSE [outcome |-> "returned", error |-> "none", sent |-> 2,
        names |-> names \cup {TableName}, created |-> TRUE]

\* the answers ListTablesCommand with Limit 1 can give
Listings(names) == IF names = {} THEN {<<>>} ELSE { <<n>> : n \in names }

Open(listed, fails, createFails) ==
  /\ Quiet
  /\ listed \in Listings(tableNames)
  /\ tableNames' = openCall(tableNames, listed, fails, createFails).names
  /\ opened' = (opened \/ openCall(tableNames, listed, fails, createFails).outcome
                            = "returned")
  /\ call' = [NoCall EXCEPT
                !.op = "open",
                !.outcome = openCall(tableNames, listed, fails, createFails).outcome,
                !.error = openCall(tableNames, listed, fails, createFails).error,
                !.sent = openCall(tableNames, listed, fails, createFails).sent,
                !.result = <<openCall(tableNames, listed, fails, createFails).created>>,
                !.failed = (fails \/ createFails),
                !.wasOpen = opened,
                !.before = table]
  /\ table' = IF openCall(tableNames, listed, fails, createFails).created
                THEN <<>> ELSE table
  /\ UNCHANGED <<lastPut, ret, chain, pending, issued, dataStore>>

(***************************************************************************)
(* The store with failures: a store is constructed on a backend that holds *)
(* any of the two tables, and is called before and after open(), with      *)
(* signals that are aborted or not, on a backend that fails or not.        *)
(***************************************************************************)
InitFault ==
  /\ table = <<>>
  /\ lastPut = EmptyClause
  /\ ret = NoRet
  /\ chain = NoChain
  /\ call = NoCall
  /\ opened = FALSE
  /\ tableNames \in SUBSET {TableName, OtherTable}
  /\ pending = NoPuts
  /\ issued = {}
  /\ dataStore = NoData

FaultOpen ==
  \E listed \in Listings(tableNames), fails \in BOOLEAN, createFails \in BOOLEAN :
    Open(listed, fails, createFails)

FaultPutCall ==
  \E tenant \in Tenants, message \in TenantMessages, pos \in 1..MaxItems,
     aborted \in BOOLEAN, cancelled \in BOOLEAN, fails \in BOOLEAN :
    /\ Cardinality(Keys(table) \cup {<<tenant, CidOf(message)>>}) <= MaxItems
    /\ FaultPut(tenant, message, IndexMap(1, 1), pos, aborted, cancelled, fails)

FaultGetCall ==
  \E tenant \in Tenants, cid \in Cids, aborted \in BOOLEAN, fails \in BOOLEAN :
    FaultGet(tenant, cid, aborted, fails)

FaultDeleteCall ==
  \E tenant \in Tenants, cid \in Cids, aborted \in BOOLEAN, fails \in BOOLEAN :
    FaultDelete(tenant, cid, aborted, fails)

FaultQueryCall ==
  \E tenant \in Tenants, filters \in StoreFilters, limit \in 0..MaxLimit,
     aborted \in BOOLEAN, fails \in BOOLEAN, lekAtEnd \in BOOLEAN :
    FaultQuery(tenant, filters, EmptyClause, limit, aborted, fails, lekAtEnd)

\* the backend fails one of the first MaxFailAt commands of a clear, or none
MaxFailAt == 3

FaultClearCall ==
  \E aborted \in BOOLEAN, failAt \in 0..MaxFailAt, byRef \in BOOLEAN :
    FaultClear(aborted, failAt, byRef)

FaultClearStep == \E lekAtEnd \in BOOLEAN : ClearLoop(lekAtEnd)

FaultCorrupt == \E i \in 1..MaxItems : Corrupt(i)

FaultReturn == CallReturn

NextFault ==
  \/ FaultOpen
  \/ FaultPutCall
  \/ FaultGetCall
  \/ FaultDeleteCall
  \/ FaultQueryCall
  \/ FaultClearCall
  \/ FaultClearStep
  \/ FaultCorrupt
  \/ FaultReturn

SpecFault == InitFault /\ [][NextFault]_vars

\* records are put and the table is cleared, while no one writes, on a
\* backend that fails a command of a clear or none
ClearFaultCall ==
  \E failAt \in 0..MaxFailAt, byRef \in BOOLEAN : FaultClear(FALSE, failAt, byRef)

NextClearFault ==
  ClearPut \/ ClearPutReturn \/ ClearFaultCall \/ ClearStep \/ CallReturn

\* the loop of clear goes on as long as the backend answers
SpecClearFault == Init /\ [][NextClearFault]_vars /\ WF_vars(ClearStep)

\* the puts of the store with failures, on their own
NextPutFault == FaultOpen \/ FaultPutCall \/ FaultReturn

SpecPutFault == InitFault /\ [][NextPutFault]_vars

(***************************************************************************)
(* Put calls at the same time.  A put runs without a break up to its first *)
(* await, on block.encode, where a cancellation ends it; it then sends one *)
(* PutItemCommand that carries the whole item and waits for it, and the    *)
(* signal is not handed to the backend.  The calls are for one key: the    *)
(* RecordsWrite with and without inline payload have one messageCid.       *)
(***************************************************************************)
ConcurrentTenant == "T1"

ConcurrentMessages == { m \in TenantMessages : m.descriptor.method = "Write" }

ConcurrentCids == { CidOf(m) : m \in ConcurrentMessages }

\* the arguments of a put call
PutArgs(tenant, message, indexes) ==
  [tenant |-> tenant, message |-> message, indexes |-> indexes]

\* the Item a put call with the arguments c sends
ItemOf(c) == putInput(c.tenant, c.message, c.indexes)

\* put is called: the check of the signal, then getEncodedData, then the
\* await on block.encode
PutEnter(p, tenant, message, indexes, aborted) ==
  /\ pending[p].pc = "idle"
  /\ HasClient
  /\ issued' = issued \cup {PutArgs(tenant, message, indexes)}
  /\ pending' = [pending EXCEPT ![p] =
                   IF aborted THEN NoPut
                   ELSE [pc |-> "encode", tenant |-> tenant,
                         message |-> message, indexes |-> indexes]]
  /\ UNCHANGED <<table, lastPut, ret, chain, call, opened, tableNames, dataStore>>

\* block.encode has ended: executeUnlessAborted throws if the signal was
\* aborted meanwhile, otherwise the PutItemCommand is sent
PutEncoded(p, cancelled) ==
  /\ pending[p].pc = "encode"
  /\ pending' = [pending EXCEPT ![p] =
                   IF cancelled THEN NoPut ELSE [@ EXCEPT !.pc = "send"]]
  /\ UNCHANGED <<table, lastPut, ret, chain, call, opened, tableNames, issued, dataStore>>

\* the backend serves the PutItemCommand, or fails it, and put returns
PutWrite(p, pos, fails) ==
  /\ pending[p].pc = "send"
  /\ pos \in 1..(Len(Remove(table, KeyOf(ItemOf(pending[p])))) + 1)
  /\ table' = IF fails THEN table ELSE PutItem(table, ItemOf(pending[p]), pos)
  /\ lastPut' = IF fails THEN lastPut
                ELSE [k \in DOMAIN lastPut \cup {KeyOf(ItemOf(pending[p]))} |->
                        IF k = KeyOf(ItemOf(pending[p]))
                          THEN PutArgs(pending[p].tenant, pending[p].message,
                                       pending[p].indexes)
                          ELSE lastPut[k]]
  /\ pending' = [pending EXCEPT ![p] = NoPut]
  /\ UNCHANGED <<ret, chain, call, opened, tableNames, issued, dataStore>>

ConcurrentEnter ==
  \E p \in Procs, message \in ConcurrentMessages, indexes \in StoreIndexMaps,
     aborted \in BOOLEAN :
    PutEnter(p, ConcurrentTenant, message, indexes, aborted)

ConcurrentEncoded == \E p \in Procs, cancelled \in BOOLEAN : PutEncoded(p, cancelled)

ConcurrentWrite ==
  \E p \in Procs, pos \in 1..MaxItems, fails \in BOOLEAN : PutWrite(p, pos, fails)

ConcurrentGet == \E cid \in ConcurrentCids : Get(ConcurrentTenant, cid)

ConcurrentQuery ==
  \E filters \in StoreFilters :
    StartQuery(ConcurrentTenant, filters, EmptyClause, 0, FALSE)

NextConcurrent ==
  \/ ConcurrentEnter
  \/ ConcurrentEncoded
  \/ ConcurrentWrite
  \/ ConcurrentGet
  \/ ConcurrentQuery
  \/ Return

SpecConcurrent == Init /\ [][NextConcurrent]_vars

(***************************************************************************)
(* DataStoreNoSql: the table dataStore of its open(), with primary key     *)
(* (tenant, recordIdDataCid).  A string is the sequence of its characters, *)
(* so that recordId + "|" + dataCid is a concatenation; the bytes of a     *)
(* blob are a sequence of numbers.  The table is the set of its items.     *)
(***************************************************************************)
recordIdDataCid(recordId, dataCid) == recordId \o <<"|">> \o dataCid

\* the Item of the PutItemCommand that DataStoreNoSql.put sends
dataPutInput(tenant, recordId, dataCid, data) ==
  [tenant |-> [S |-> tenant], recordId |-> [S |-> recordId],
   dataCid |-> [S |-> dataCid],
   recordIdDataCid |-> [S |-> recordIdDataCid(recordId, dataCid)],
   data |-> [B |-> data]]

dataKeyOf(item) == <<item.tenant.S, item.recordIdDataCid.S>>

\* PutItem, GetItem and DeleteItem of the backend on the table dataStore
dataPutItem(tbl, item) ==
  { it \in tbl : dataKeyOf(it) # dataKeyOf(item) } \cup {item}

dataGetItem(tbl, key) == { it \in tbl : dataKeyOf(it) = key }

dataDeleteItem(tbl, key) == { it \in tbl : dataKeyOf(it) # key }

\* what get returns for the bytes it read: dataSize and the content of
\* dataStream
DataStoreGetResult(data) == [dataSize |-> Len(data), dataStream |-> data]

\* what DataStoreNoSql.get returns: <<>> stands for undefined
dataGet(tbl, tenant, recordId, dataCid) ==
  IF dataGetItem(tbl, <<tenant, recordIdDataCid(recordId, dataCid)>>) = {}
    THEN <<>>
    ELSE <<DataStoreGetResult(
             (CHOOSE it \in dataGetItem(tbl, <<tenant, recordIdDataCid(recordId, dataCid)>>) :
                TRUE).data.B)>>

\* the record of a call of DataStoreNoSql
DataRet(op, tenant, recordId, dataCid, result) ==
  [op |-> op, tenant |-> tenant, recordId |-> recordId, dataCid |-> dataCid,
   result |-> result]

\* DataStoreNoSql.put: the PutItemCommand is awaited outside any try, so a
\* failure of the backend is thrown to the caller
DataPut(tenant, recordId, dataCid, data, fails) ==
  /\ dataStore' =
       IF fails
         THEN [dataStore EXCEPT
                 !.ret = DataRet("put", tenant, recordId, dataCid, <<"BackendError">>)]
         ELSE [table |-> dataPutItem(dataStore.table,
                                     dataPutInput(tenant, recordId, dataCid, data)),
               last |-> [k \in DOMAIN dataStore.last \cup {<<tenant, recordId, dataCid>>} |->
                           IF k = <<tenant, recordId, dataCid>> THEN data
                           ELSE dataStore.last[k]],
               ret |-> DataRet("put", tenant, recordId, dataCid,
                               <<[dataSize |-> Len(data)]>>)]
  /\ UNCHANGED <<table, lastPut, ret, chain, call, opened, tableNames, pending, issued>>

\* DataStoreNoSql.get
DataGet(tenant, recordId, dataCid) ==
  /\ dataStore' =
       [dataStore EXCEPT
          !.ret = DataRet("get", tenant, recordId, dataCid,
                          dataGet(dataStore.table, tenant, recordId, dataCid))]
  /\ UNCHANGED <<table, lastPut, ret, chain, call, opened, tableNames, pending, issued>>

\* DataStoreNoSql.delete
DataDelete(tenant, recordId, dataCid, fails) ==
  /\ dataStore' =
       IF fails
         THEN [dataStore EXCEPT
                 !.ret = DataRet("delete", tenant, recordId, dataCid, <<"BackendError">>)]
         ELSE [table |-> dataDeleteItem(dataStore.table,
                           <<tenant, recordIdDataCid(recordId, dataCid)>>),
               last |-> [k \in DOMAIN dataStore.last \ {<<tenant, recordId, dataCid>>} |->
                           dataStore.last[k]],
               ret |-> DataRet("delete", tenant, recordId, dataCid, <<>>)]
  /\ UNCHANGED <<table, lastPut, ret, chain, call, opened, tableNames, pending, issued>>

\* the identifiers of records and of blobs: strings with and without "|"
DataIds == { <<"a">>, <<"a", "|", "a">> }

\* the blobs: no byte, and one byte
DataBlobs == { <<>>, <<7>> }

\* the items the table dataStore holds at most
MaxBlobs == 2

DataPutCall ==
  \E tenant \in Tenants, recordId \in DataIds, dataCid \in DataIds,
     data \in DataBlobs, fails \in BOOLEAN :
    /\ Cardinality({ dataKeyOf(it) : it \in dataStore.table }
                     \cup {<<tenant, recordIdDataCid(recordId, dataCid)>>}) <= MaxBlobs
    /\ DataPut(tenant, recordId, dataCid, data, fails)

DataGetCall ==
  \E tenant \in Tenants, recordId \in DataIds, dataCid \in DataIds :
    DataGet(tenant, recordId, dataCid)

DataDeleteCall ==
  \E tenant \in Tenants, recordId \in DataIds, dataCid \in DataIds,
     fails \in BOOLEAN :
    DataDelete(tenant, recordId, dataCid, fails)

NextData == DataPutCall \/ DataGetCall \/ DataDeleteCall

SpecData == Init /\ [][NextData]_vars

(***************************************************************************)
(* The contract of the store, in the terms of the model.                   *)
(***************************************************************************)
\* the clause holds of the item: the item has every attribute the clause
\* names, with the value the clause requires
ClauseHolds(item, clause) ==
  \A key \in DOMAIN clause :
    /\ HasField(item, key)
    /\ HasField(item[key], "S")
    /\ item[key].S = clause[key]

\* the item is in the disjunctive normal form the clauses stand for
InDNF(item, filters) ==
  \E i \in 1..Len(filters) : ClauseHolds(item, filters[i])

\* the item passes the filter list: an empty list filters nothing
Passes(item, filters) == filters = <<>> \/ InDNF(item, filters)

\* the content identifiers of messages and of items, in their order
MessageCids(messages) == [i \in 1..Len(messages) |-> CidOf(messages[i])]

ItemCids(items) == [i \in 1..Len(items) |-> items[i].messageCid.S]

\* the content identifiers of the tenant's records that pass the filters
MatchingCids(tbl, tenant, filters) ==
  { tbl[i].messageCid.S :
      i \in { j \in 1..Len(tbl) : /\ tbl[j].tenant.S = tenant
                                  /\ Passes(tbl[j], filters) } }

\* the tenant's record with the content identifier
Record(tbl, tenant, cid) ==
  tbl[CHOOSE i \in 1..Len(tbl) : KeyOf(tbl[i]) = <<tenant, cid>>]

\* records a and b, a returned before b, respect the sort order
Ordered(a, b, property, direction) ==
  (HasField(a, property) /\ HasField(b, property)) =>
    IF direction = Ascending
      THEN a[property].S <= b[property].S
      ELSE a[property].S >= b[property].S

\* the records with the content identifiers cids are in the sort order
InSortOrder(tbl, tenant, cids, messageSort) ==
  \A i, j \in 1..Len(cids) :
    (i < j /\ <<tenant, cids[i]>> \in Keys(tbl) /\ <<tenant, cids[j]>> \in Keys(tbl)) =>
      Ordered(Record(tbl, tenant, cids[i]), Record(tbl, tenant, cids[j]),
              extractSortProperties(messageSort).property,
              extractSortProperties(messageSort).direction)

\* the latest query call returned a page
PageReturned == chain.active /\ ~chain.error

\* the index the chain's query reads, in the order it reads it
ChainScan ==
  IndexScan(table, chain.tenant,
            extractSortProperties(chain.messageSort).property,
            extractSortProperties(chain.messageSort).direction = Ascending)

\* the number of entries of ChainScan at or before the position of the
\* cursor the latest call was given
CursorPosition ==
  SkipCount(table, ChainScan,
            cursorInputSort(chain.tenant,
                            [limit |-> chain.limit, cursor |-> chain.cursorIn],
                            extractSortProperties(chain.messageSort).property,
                            extractSortProperties(chain.messageSort).direction))

\* the number of the tenant's records that pass the filters and lie after
\* position n of the index
RemainingAfter(n) ==
  Cardinality({ k \in (n + 1)..Len(ChainScan) :
                  Passes(table[ChainScan[k]], chain.filters) })

(***************************************************************************)
(* Paging properties, of SpecPage.                                         *)
(***************************************************************************)
\* C1: pagination completeness.  When a chain of query calls with limit
\* L >= 1 over an unchanged table ends with a call that returns no cursor,
\* the pages concatenated hold exactly the tenant's records that pass the
\* filters, each once, in the declared sort order.
PaginationComplete ==
  (PageReturned /\ chain.limit >= 1 /\ chain.cursor = <<>>) =>
    /\ Range(MessageCids(chain.acc))
         = MatchingCids(table, chain.tenant, chain.filters)
    /\ Len(chain.acc)
         = Cardinality(MatchingCids(table, chain.tenant, chain.filters))
    /\ InSortOrder(table, chain.tenant, MessageCids(chain.acc), chain.messageSort)

\* C2: page fill.  A page returned for limit L >= 1 holds at least
\* min(L, remaining) messages, remaining being the number of the tenant's
\* records that pass the filters and lie after the cursor position.
PageFill ==
  (PageReturned /\ chain.limit >= 1) =>
    Len(chain.messages) >= Min(chain.limit, RemainingAfter(CursorPosition))

\* C3: an empty filter list filters nothing.  A query with filters = []
\* returns every record of the window it fetched.
EmptyFilterKeepsWindow ==
  (PageReturned /\ chain.filters = <<>>) =>
    MessageCids(chain.messages) = ItemCids(chain.window)

\* C5: no cursor at exhaustion.  When a page is returned for limit L >= 1
\* and no record of the tenant that passes the filters lies after the page,
\* the result carries no cursor.
NoCursorAtExhaustion ==
  (/\ PageReturned
   /\ chain.limit >= 1
   /\ RemainingAfter(CursorPosition + Len(chain.window)) = 0) =>
    chain.cursor = <<>>

\* the table holds three records of one tenant with three time stamps
ThreeRecords ==
  /\ Len(table) = 3
  /\ \A i \in 1..3 : table[i].tenant.S = chain.tenant
  /\ \A i, j \in 1..3 :
       i # j => table[i].messageTimestamp.S # table[j].messageTimestamp.S

\* the content identifiers of r1, r2, r3: the records by time stamp
ByTimestamp ==
  [n \in 1..Len(table) |->
     table[ForwardScan(table, "messageTimestamp", 1..Len(table))[n]].messageCid.S]

\* C6: the scenario.  With three records r1, r2, r3 of one tenant with time
\* stamps t1 < t2 < t3, the query sorted by messageTimestamp ascending with
\* limit 2 and no filter returns [r1, r2] and a cursor, and the next query,
\* with that cursor, returns [r3] and no cursor.
ScenarioThreeRecords ==
  (/\ PageReturned
   /\ ThreeRecords
   /\ chain.messageSort = [messageTimestamp |-> Ascending]
   /\ chain.limit = 2
   /\ chain.filters = <<>>) =>
    /\ chain.pages = 1 =>
         /\ MessageCids(chain.messages) = SubSeq(ByTimestamp, 1, 2)
         /\ chain.cursor # <<>>
    /\ chain.pages = 2 =>
         /\ MessageCids(chain.messages) = SubSeq(ByTimestamp, 3, 3)
         /\ chain.cursor = <<>>

\* C7: tie-break.  Two records of a page with equal values of the sort
\* attribute are in the order of their content identifiers, in the
\* direction of the sort, and a repeated query returns the same page.
TieBreakByCid ==
  PageReturned =>
    /\ \A i, j \in 1..Len(chain.kept) :
         (/\ i < j
          /\ ItemS(chain.kept[i], extractSortProperties(chain.messageSort).property)
               = ItemS(chain.kept[j], extractSortProperties(chain.messageSort).property)) =>
           IF extractSortProperties(chain.messageSort).direction = Ascending
             THEN chain.kept[i].messageCid.S < chain.kept[j].messageCid.S
             ELSE chain.kept[i].messageCid.S > chain.kept[j].messageCid.S
    /\ \A lekAtEnd \in BOOLEAN :
         query(table, chain.tenant, chain.filters, chain.messageSort,
               [limit |-> chain.limit, cursor |-> chain.cursorIn],
               lekAtEnd).messages = chain.messages

(***************************************************************************)
(* Filtering property, of SpecFilter.                                      *)
(***************************************************************************)
\* C4: filter DNF semantics.  For a non-empty filter list, query keeps an
\* item of the window if and only if at least one clause has all of its
\* attribute/value pairs equal to the item's attributes; a clause naming an
\* attribute the item lacks does not match, and is no error.
FilterDNF ==
  (chain.active /\ chain.filters # <<>>) =>
    /\ ~chain.error
    /\ chain.kept = SelectSeq(chain.window, LAMBDA item : InDNF(item, chain.filters))
    /\ MessageCids(chain.messages) = ItemCids(chain.kept)

\* the item has the values a, b, c of the attributes a, b, c
HasABC(item, a, b, c) ==
  /\ ItemS(item, "a") = <<a>>
  /\ ItemS(item, "b") = <<b>>
  /\ ItemS(item, "c") = <<c>>

\* the clauses [{a:1,b:2},{c:3}] were applied to a window with an item
\* {a:1,b:9,c:3}, which was kept, and an item {a:1,b:9,c:9}, which was not
FilterDNFSeen ==
  /\ PageReturned
  /\ chain.filters = <<[a |-> 1, b |-> 2], [c |-> 3]>>
  /\ \E i \in 1..Len(chain.kept) : HasABC(chain.kept[i], 1, 9, 3)
  /\ \E i \in 1..Len(chain.window) :
       /\ HasABC(chain.window[i], 1, 9, 9)
       /\ chain.window[i] \notin Range(chain.kept)

(***************************************************************************)
(* Store properties, of Spec.                                              *)
(***************************************************************************)
\* C8: round trip.  After put(tenant, m, indexes), get(tenant, cid(m))
\* returns m as it was passed to put, with the inline payload when one was
\* passed and without one otherwise; a message of a query page is the
\* message passed to the put of its record.
RoundTrip ==
  /\ ret.op = "put" => get(table, ret.tenant, ret.cid) = ret.arg
  /\ (ret.op = "get" /\ <<ret.tenant, ret.cid>> \in DOMAIN lastPut) =>
       ret.result = <<lastPut[<<ret.tenant, ret.cid>>].message>>
  /\ PageReturned =>
       /\ Len(chain.messages) = Len(chain.kept)
       /\ \A i \in 1..Len(chain.kept) :
            /\ KeyOf(chain.kept[i]) \in DOMAIN lastPut
            /\ chain.messages[i] = lastPut[KeyOf(chain.kept[i])].message

\* get returned a RecordsWrite with its inline payload
RoundTripSeen ==
  /\ ret.op = "get"
  /\ ret.result # <<>>
  /\ ret.result[1].descriptor.method = "Write"
  /\ HasField(ret.result[1], "encodedData")
  /\ ret.result[1].encodedData # ""

\* C9: dedup/upsert.  The table holds at most one item per (tenant,
\* messageCid), and the item is exactly the item of the latest put of the
\* key: no attribute of an earlier put is left.
Upsert ==
  /\ \A i, j \in 1..Len(table) : KeyOf(table[i]) = KeyOf(table[j]) => i = j
  /\ \A i \in 1..Len(table) :
       /\ KeyOf(table[i]) \in DOMAIN lastPut
       /\ table[i] = putInput(lastPut[KeyOf(table[i])].tenant,
                              lastPut[KeyOf(table[i])].message,
                              lastPut[KeyOf(table[i])].indexes)
  /\ ret.op = "put" => Len(ItemAt(table, ret.tenant, ret.cid)) = 1

\* a put replaced an item that had a tag and an inline payload by one that
\* has neither
UpsertSeen ==
  /\ ret.op = "put"
  /\ ret.before # <<>>
  /\ HasField(ret.before[1], "tag.k")
  /\ HasField(ret.before[1], "encodedData")
  /\ ItemAt(table, ret.tenant, ret.cid) # <<>>
  /\ ~HasField(ItemAt(table, ret.tenant, ret.cid)[1], "tag.k")
  /\ ~HasField(ItemAt(table, ret.tenant, ret.cid)[1], "encodedData")

\* a key that was never put, or was deleted after its latest put, is not
\* found by get and is in no query page
AbsentWhileDeleted ==
  /\ \A tenant \in Tenants, cid \in Cids :
       <<tenant, cid>> \notin DOMAIN lastPut => get(table, tenant, cid) = <<>>
  /\ (ret.op \in {"get", "delete"} /\ <<ret.tenant, ret.cid>> \notin DOMAIN lastPut) =>
       /\ ret.result = <<>>
       /\ <<ret.tenant, ret.cid>> \notin Keys(table)
  /\ PageReturned =>
       \A i \in 1..Len(chain.messages) :
         <<chain.tenant, CidOf(chain.messages[i])>> \in DOMAIN lastPut

\* a delete of a key that is absent leaves the table as it is
DeleteOfAbsent ==
  (ret.op # "delete" /\ ret'.op = "delete" /\ ret'.before = <<>>) =>
    table' = table

\* C10: delete.  After delete(tenant, cid), get(tenant, cid) returns
\* undefined and no query of the tenant returns the record, until a later
\* put of the key; the delete of an absent key changes nothing.
DeleteContract == []AbsentWhileDeleted /\ [][DeleteOfAbsent]_vars

\* a delete removed a record that was there
DeleteSeen ==
  /\ ret.op = "delete"
  /\ ret.before # <<>>
  /\ get(table, ret.tenant, ret.cid) = <<>>

(***************************************************************************)
(* clear(), of SpecClear.                                                  *)
(***************************************************************************)
\* when clear has returned, a scan of the table finds no item
ClearedOnReturn ==
  (call.op = "clear" /\ call.pc = "done") =>
    /\ call.outcome = "returned"
    /\ \A lekAtEnd \in BOOLEAN : Scan(table, <<>>, lekAtEnd).Items = <<>>
    /\ \A tenant \in Tenants, cid \in Cids : get(table, tenant, cid) = <<>>

\* C11: clear.  With a working backend and no writer at work, clear() ends,
\* whatever the size of the table (also when the table is larger than one
\* scan response, so that the backend returns a continuation key), and
\* when it has ended a scan of the table returns no item of any tenant.
ClearContract ==
  /\ []ClearedOnReturn
  /\ (call.op = "clear") ~> (call.op = "clear" /\ call.pc = "done")

\* clear has ended after more than one scan, having deleted more items than
\* one response holds
ClearSeen ==
  /\ call.op = "clear"
  /\ call.pc = "done"
  /\ call.scans >= 2
  /\ call.sent - call.scans > ResponseCap
  /\ table = <<>>

(***************************************************************************)
(* Failures, of SpecFault.                                                 *)
(***************************************************************************)
\* C12: write failures are surfaced.  When the backend fails the item write
\* that put sends, put throws: it does not return when the record was not
\* written.
PutFailureSurfaced ==
  (call.op = "put" /\ call.sent > 0 /\ call.failed) => call.outcome = "threw"

\* C13: get returns undefined only when no item is stored under (tenant,
\* cid); a failure of the backend and stored bytes that do not decode are
\* surfaced as errors.
GetNotFoundOnlyWhenAbsent ==
  call.op = "get" =>
    /\ (call.outcome = "returned" /\ call.result = <<>>) => call.before = <<>>
    /\ (call.sent > 0 /\ call.failed) => call.outcome = "threw"
    /\ (/\ call.sent > 0
        /\ ~call.failed
        /\ call.before # <<>>
        /\ ~Decodable(call.before[1].encodedMessageBytes.B)) =>
         call.outcome = "threw"

\* C14: cancellation at entry.  put, get, query, delete and clear called
\* with a signal that is aborted send no backend command and end by
\* throwing the cancellation error.
CancelledAtEntry ==
  (call.op \in {"put", "get", "query", "delete", "clear"} /\ call.aborted) =>
    /\ call.sent = 0
    /\ call.pc = "done" => (call.outcome = "threw" /\ call.error = "Aborted")

\* C15: not open.  put, get, query, delete and clear called on a store whose
\* open() has not returned send no backend command and end by throwing the
\* not-open error.
NotOpenSurfaced ==
  (call.op \in {"put", "get", "query", "delete", "clear"} /\ ~call.wasOpen) =>
    /\ call.sent = 0
    /\ call.pc = "done" => (call.outcome = "threw" /\ call.error = "NotOpen")

(***************************************************************************)
(* Queries, of SpecCursor.                                                 *)
(***************************************************************************)
\* the latest query was given a cursor that another query returned
CrossedQuery == chain.active /\ chain.pages = 1 /\ chain.cursorIn # <<>>

\* what the latest query returns when it is given no cursor
WithoutCursor(lekAtEnd) ==
  query(table, chain.tenant, chain.filters, chain.messageSort,
        [limit |-> chain.limit, cursor |-> <<>>], lekAtEnd)

\* C16: cursor validity.  A query that is given a cursor returned under
\* another sort order or another filter list fails, or returns what it
\* returns without a cursor: the cursor is not taken as a place to resume
\* from.
CursorValidity ==
  CrossedQuery =>
    \/ chain.error
    \/ \E lekAtEnd \in BOOLEAN :
         /\ chain.messages = WithoutCursor(lekAtEnd).messages
         /\ chain.cursor = WithoutCursor(lekAtEnd).cursor

(***************************************************************************)
(* Tenants, of SpecTenant.                                                 *)
(***************************************************************************)
\* all that the store returns to a tenant on the table tbl: the answer of
\* get for every content identifier and of query for every argument
TenantView(tbl, tenant) ==
  [gets |-> [cid \in TenantCids |-> get(tbl, tenant, cid)],
   queries |-> [a \in StoreFilters \X StoreSorts \X (0..MaxLimit) \X BOOLEAN |->
                  query(tbl, tenant, a[1], a[2],
                        [limit |-> a[3], cursor |-> <<>>], a[4])]]

\* get and query return records that were put under the tenant of the call
OwnRecordsOnly ==
  /\ (ret.op = "get" /\ ret.result # <<>>) =>
       /\ <<ret.tenant, ret.cid>> \in DOMAIN lastPut
       /\ lastPut[<<ret.tenant, ret.cid>>].tenant = ret.tenant
       /\ ret.result = <<lastPut[<<ret.tenant, ret.cid>>].message>>
  /\ (chain.active /\ ~chain.error) =>
       /\ Len(chain.messages) = Len(chain.kept)
       /\ \A i \in 1..Len(chain.kept) :
            /\ chain.kept[i].tenant.S = chain.tenant
            /\ KeyOf(chain.kept[i]) \in DOMAIN lastPut
            /\ lastPut[KeyOf(chain.kept[i])].tenant = chain.tenant
            /\ chain.messages[i] = lastPut[KeyOf(chain.kept[i])].message

\* a put or a delete of one tenant leaves the view of every other tenant
OthersUntouched ==
  \A tenant \in Tenants :
    (ret'.op \in {"put", "delete"} /\ ret'.tenant # tenant) =>
      TenantView(table', tenant) = TenantView(table, tenant)

\* C17: tenant isolation.  get(T, cid) and query(T, ...) return only records
\* that were put under T, and a put or a delete under T changes nothing of
\* what get and query return to any other tenant.
TenantIsolation == []OwnRecordsOnly /\ [][OthersUntouched]_vars

\* a record was deleted under one tenant while the other tenant holds a
\* record with the same content identifier
TenantIsolationSeen ==
  /\ ret.op = "delete"
  /\ ret.before # <<>>
  /\ \E tenant \in Tenants \ {ret.tenant} : ItemAt(table, tenant, ret.cid) # <<>>

(***************************************************************************)
(* Sorting, of SpecSort.                                                   *)
(***************************************************************************)
\* the index and the direction the contract gives a sort request
SelectedIndex(messageSort) ==
  IF \E p \in SortProps : DOMAIN messageSort = {p}
    THEN CHOOSE p \in SortProps : DOMAIN messageSort = {p}
    ELSE "messageTimestamp"

SelectedDirection(messageSort) ==
  IF \E p \in SortProps : DOMAIN messageSort = {p}
    THEN messageSort[SelectedIndex(messageSort)]
    ELSE Ascending

\* item a is strictly before item b in the index, scanned in the direction
StrictlyBefore(a, b, property, direction) ==
  IF direction = Ascending
    THEN a[property].S < b[property].S
    ELSE a[property].S > b[property].S

\* the items the backend returned are entries of the index, in the order of
\* the scan, and no entry the scan meets before the last of them is left out
\* of a first window
WindowOfIndex(window, tbl, tenant, cursorIn, property, direction) ==
  /\ \A i \in 1..Len(window) :
       /\ window[i].tenant.S = tenant
       /\ HasField(window[i], property)
  /\ \A i, j \in 1..Len(window) :
       i < j => ~StrictlyBefore(window[j], window[i], property, direction)
  /\ cursorIn = <<>> =>
       \A k \in 1..Len(tbl) :
         (/\ tbl[k].tenant.S = tenant
          /\ HasField(tbl[k], property)
          /\ \E i \in 1..Len(window) :
               StrictlyBefore(tbl[k], window[i], property, direction)) =>
           tbl[k] \in Range(window)

\* C18: sort index selector.  A query whose sort request names one of
\* dateCreated, datePublished, messageTimestamp with a direction reads the
\* secondary index of that name, forward when ascending and backward when
\* descending; a query without a sort request reads messageTimestamp
\* forward; the query raises no error.
SortIndexSelector ==
  chain.active =>
    /\ ~chain.error
    /\ cursorInputSort(chain.tenant, [limit |-> chain.limit, cursor |-> chain.cursorIn],
                       extractSortProperties(chain.messageSort).property,
                       extractSortProperties(chain.messageSort).direction).IndexName
         = SelectedIndex(chain.messageSort)
    /\ cursorInputSort(chain.tenant, [limit |-> chain.limit, cursor |-> chain.cursorIn],
                       extractSortProperties(chain.messageSort).property,
                       extractSortProperties(chain.messageSort).direction).ScanIndexForward
         = (SelectedDirection(chain.messageSort) = Ascending)
    /\ WindowOfIndex(chain.window, table, chain.tenant, chain.cursorIn,
                     SelectedIndex(chain.messageSort),
                     SelectedDirection(chain.messageSort))

\* a query by datePublished, descending, returned two records that the
\* descending scans of the two other indexes return the other way round
SortIndexSelectorSeen ==
  /\ chain.active
  /\ chain.messageSort = [datePublished |-> Descending]
  /\ Len(chain.window) = 2
  /\ chain.window[1].datePublished.S > chain.window[2].datePublished.S
  /\ chain.window[1].messageTimestamp.S < chain.window[2].messageTimestamp.S
  /\ chain.window[1].dateCreated.S < chain.window[2].dateCreated.S

(***************************************************************************)
(* Queries without a limit, of SpecPage.                                   *)
(***************************************************************************)
\* C19: unbounded query.  A query whose limit is absent or zero returns
\* every record of the tenant that passes the filters, also when the table
\* is larger than one response of the backend, and returns no cursor.
UnboundedQuery ==
  (PageReturned /\ chain.limit = 0 /\ chain.pages = 1) =>
    /\ chain.cursor = <<>>
    /\ Range(MessageCids(chain.messages))
         = MatchingCids(table, chain.tenant, chain.filters)
    /\ Len(chain.messages)
         = Cardinality(MatchingCids(table, chain.tenant, chain.filters))

(***************************************************************************)
(* open, of SpecFault.                                                     *)
(***************************************************************************)
\* the latest call is an open() that returned
OpenReturned == call.op = "open" /\ call.outcome = "returned"

\* the latest call is an open() on a backend that held the table, and the
\* backend answered the listing of its tables
OpenOfProvisioned ==
  /\ call.op = "open"
  /\ TableName \in tableNames
  /\ call.result = <<FALSE>>
  /\ call.error # "Backend"

\* C20: open is idempotent.  After open() returns the table
\* messageStoreMessages exists; open() on a backend that holds the table
\* returns, creates no table and leaves the records as they were, whatever
\* table the backend lists.
OpenIdempotent ==
  /\ OpenReturned => TableName \in tableNames
  /\ OpenOfProvisioned => (OpenReturned /\ table = call.before)

(***************************************************************************)
(* The size of a page, of SpecCursor.                                      *)
(***************************************************************************)
\* C26: page size upper bound.  A query with limit L >= 1 returns at most L
\* messages, whatever the table, the filters, the sort order and the cursor.
PageSizeBound ==
  (PageReturned /\ chain.limit >= 1) => Len(chain.messages) <= chain.limit

\* a query with limit 1 and a cursor returned one message of a table that
\* holds two more records that pass its filters
PageSizeBoundSeen ==
  /\ PageReturned
  /\ chain.limit = 1
  /\ chain.cursorIn # <<>>
  /\ Len(chain.messages) = 1
  /\ Cardinality(MatchingCids(table, chain.tenant, chain.filters)) = 3

(***************************************************************************)
(* The position of the cursor, of SpecPage.                                *)
(***************************************************************************)
\* C24: cursor position.  A cursor that query returns names the last message
\* of the page it comes with: the key (tenant, messageCid) of that message
\* and its value of the sort attribute.
CursorAtLastMessage ==
  (PageReturned /\ chain.cursor # <<>>) =>
    /\ chain.messages # <<>>
    /\ JSONparse(chain.cursor[1].messageCid)
         = IndexKey(chain.kept[Len(chain.kept)],
                    extractSortProperties(chain.messageSort).property)

(***************************************************************************)
(* Content addressing, of Spec.                                            *)
(***************************************************************************)
\* the message without its inline payload
Stripped(message) == [descriptor |-> message.descriptor]

\* C25: payload-stripped content addressing.  The item that put stores for a
\* message with the field encodedData has the payload as its attribute
\* encodedData, and its messageCid and encodedMessageBytes are those of the
\* message without the payload, so that messages that differ in the payload
\* only are stored under one key.
PayloadStripped ==
  (ret.op = "put" /\ HasField(ret.arg[1], "encodedData")) =>
    /\ ret.cid = blockCid(blockEncode(Stripped(ret.arg[1])))
    /\ ItemAt(table, ret.tenant, ret.cid) # <<>>
    /\ ItemAt(table, ret.tenant, ret.cid)[1].encodedMessageBytes
         = [B |-> blockEncode(Stripped(ret.arg[1]))]
    /\ ItemS(ItemAt(table, ret.tenant, ret.cid)[1], "encodedData")
         = <<ret.arg[1].encodedData>>

(***************************************************************************)
(* The argument of put, of SpecPutFault.                                   *)
(***************************************************************************)
\* the message is a RecordsWrite with an inline payload that is not empty
WriteWithPayload(message) ==
  /\ message.descriptor.interface = "Records"
  /\ message.descriptor.method = "Write"
  /\ HasField(message, "encodedData")
  /\ message.encodedData # ""

\* put took the payload out of the caller's message when it is a RecordsWrite
\* with a payload, and left every other message as it was
ArgumentStripped ==
  IF WriteWithPayload(call.arg[1])
    THEN call.after = <<Stripped(call.arg[1])>>
    ELSE call.after = call.arg

\* C27: put's effect on its argument.  After any put of a RecordsWrite with
\* a payload that is not empty the caller's message has no field
\* encodedData, whether the write succeeded or failed; any other message is
\* unchanged.
PutStripsArgument == call.op = "put" => ArgumentStripped

\* C27, amended: the above holds of a put that is called with a signal that
\* is not aborted, also when the signal is aborted later or the backend
\* fails the write; a put that is called with an aborted signal leaves every
\* message unchanged.
PutStripsUnlessAborted ==
  call.op = "put" =>
    IF call.aborted THEN call.after = call.arg ELSE ArgumentStripped

\* a put whose write the backend failed has taken the payload out of the
\* caller's RecordsWrite
PutStripsSeen ==
  /\ call.op = "put"
  /\ ~call.aborted
  /\ call.failed
  /\ call.sent = 1
  /\ WriteWithPayload(call.arg[1])
  /\ ~HasField(call.after[1], "encodedData")

(***************************************************************************)
(* clear on a backend that fails, of SpecClearFault.                       *)
(***************************************************************************)
\* a step of clear takes whole items out of the table and leaves the others
\* as they are, and a command that fails ends the loop
ClearStepWhole ==
  call'.op = "clear" =>
    /\ Range(table') \subseteq Range(table)
    /\ call'.failed => (call'.pc = "done" /\ call'.sent = call'.failAt)

\* C23: clear tolerates partial failure.  When a scan or a delete of clear
\* fails the loop stops, the items deleted before stay deleted and every
\* other item is left whole; a clear that is called afterwards and that no
\* command fails ends with the table empty.
ClearTolerant ==
  /\ [][ClearStepWhole]_vars
  /\ (call.op = "clear" /\ call.failAt = 0)
       ~> (call.op = "clear" /\ call.pc = "done" /\ table = <<>>)

\* a clear stopped at a delete that failed, after it deleted an item and
\* before it deleted another
ClearTolerantSeen ==
  /\ call.op = "clear"
  /\ call.pc = "done"
  /\ call.failed
  /\ table # <<>>
  /\ Len(table) < Len(call.before)

\* C22: whatever the interleaving of the put calls for one (tenant,
\* messageCid) and of their cancellations, every stored item is the whole
\* Item of one single put call (bytes, inline data, indexed attributes and
\* tag attributes), and what a get or a query returns meanwhile is read from
\* the Item of one single put call.
WholeItem(item) == \E c \in issued : item = ItemOf(c)

NoTornWrite ==
  /\ \A i \in 1..Len(table) : WholeItem(table[i])
  /\ (ret.op = "get" /\ ret.result # <<>>)
       => \E c \in issued : ret.result = get(<<ItemOf(c)>>, ret.tenant, ret.cid)
  /\ chain.active
       => /\ \A i \in 1..Len(chain.window) : WholeItem(chain.window[i])
          /\ \A i \in 1..Len(chain.messages) :
               \E c \in issued :
                 <<chain.messages[i]>> = get(<<ItemOf(c)>>, c.tenant, CidOf(c.message))

\* a get has read the item of the key while a put call with another Item for
\* the same key waits for its PutItemCommand
NoTornWriteSeen ==
  /\ ret.op = "get" /\ ret.result # <<>>
  /\ \E p \in Procs :
       /\ pending[p].pc = "send"
       /\ ItemAt(table, pending[p].tenant, CidOf(pending[p].message))
            \notin {<<>>, <<ItemOf(pending[p])>>}

\* C21: DataStoreNoSql is a map keyed by the triple (tenant, recordId,
\* dataCid): get returns the bytes and the size of the latest put under
\* exactly its triple that was not deleted since, and undefined otherwise,
\* so that a put or a delete under one triple changes nothing for another.
BlobOf(tenant, recordId, dataCid) ==
  IF <<tenant, recordId, dataCid>> \in DOMAIN dataStore.last
    THEN <<DataStoreGetResult(dataStore.last[<<tenant, recordId, dataCid>>])>>
    ELSE <<>>

KeyedByTriple ==
  /\ dataStore.ret.op = "get"
       => dataStore.ret.result
            = BlobOf(dataStore.ret.tenant, dataStore.ret.recordId, dataStore.ret.dataCid)
  /\ \A tenant \in Tenants, recordId \in DataIds, dataCid \in DataIds :
       dataGet(dataStore.table, tenant, recordId, dataCid)
         = BlobOf(tenant, recordId, dataCid)

=========================================================================
